---- MODULE Spec2Model ----
(***************************************************************************)
(* dejavu.Cache: an insert-only binary search tree packed into one byte    *)
(* array.  The byte array, the big-endian child indices and the recursive  *)
(* descent are modelled byte for byte; a Go run-time panic (index or slice *)
(* bounds out of range) is an explicit outcome of every operation.         *)
(***************************************************************************)
EXTENDS Integers, Naturals, Sequences, FiniteSets, TLC

(* ---------------------------------------------------------------------- *)
(* Bounds of the model                                                     *)
(* ---------------------------------------------------------------------- *)
\* largest capacity n handed to newCache
MaxCap == 2
\* the bytes that input values are made of
Bytes == {0, 1}
\* bit width l handed to newCache (NewCache128 passes 128)
ValBits == 16
\* number of Insert calls made on one cache
MaxCalls == 2
MaxWidthCap == 40

(* ---------------------------------------------------------------------- *)
(* Program constants                                                       *)
(* ---------------------------------------------------------------------- *)
bitsPerByte == 8
maxUintLen32 == 4

Nil == "nil"
ErrInsertFull == "could not insert: no more free space left in cache"
ErrInsertLen == "could not insert: value length not equal to %d bytes"
ErrRecallLen == "could not recall: value length not equal to %d bytes"
ErrLoadLen == "could not load: value length not equal to %d bytes"
ErrLoadFull == "could not load: not enough free space left in cache"
ErrEOF == "EOF"
\* a run-time panic of the Go program (bounds check failed)
Panic == "panic: runtime error: out of range"

(* ---------------------------------------------------------------------- *)
(* Byte-level helpers                                                      *)
(* ---------------------------------------------------------------------- *)
RECURSIVE Pow(_, _)
Pow(b, k) == IF k = 0 THEN 1 ELSE b * Pow(b, k - 1)

\* binary.BigEndian.PutUint32: the four bytes of a uint32, offsets 0..3
\* (every integer of the model is below 2^31, so uint32(value) is value)
BigEndianPutUint32(value) ==
    [i \in 0..3 |-> (value \div Pow(256, 3 - i)) % 256]

\* binary.BigEndian.Uint32: the uint32 of four bytes, offsets 0..3
BigEndianUint32(b) ==
    b[0] * Pow(256, 3) + b[1] * Pow(256, 2) + b[2] * 256 + b[3]

\* bytes.Compare on two byte sequences: -1, 0 or 1
RECURSIVE Compare(_, _)
Compare(a, b) ==
    IF a = <<>> /\ b = <<>> THEN 0
    ELSE IF a = <<>> THEN -1
    ELSE IF b = <<>> THEN 1
    ELSE IF Head(a) < Head(b) THEN -1
    ELSE IF Head(a) > Head(b) THEN 1
    ELSE Compare(Tail(a), Tail(b))

\* log(n, m): the least multiple x of m with 1<<x >= n, or 0 if n == 0
RECURSIVE logLoop(_, _, _)
logLoop(n, m, x) == IF Pow(2, x) >= n THEN x ELSE logLoop(n, m, x + m)

\* log that never returns less than m for n >= 1
logAtLeast(n, m) == IF n = 0 THEN 0 ELSE IF n = 1 THEN m ELSE logLoop(n, m, 0)

log(n, m) == IF n = 0 THEN 0 ELSE logLoop(n, m, 0)

\* putUint32(into, value): the len(into) bytes stored, offsets 0..len-1
putUint32(len, value) ==
    [i \in 0..(len - 1) |-> BigEndianPutUint32(value)[maxUintLen32 - len + i]]

\* getUint32(from): from is a byte array with offsets 0..len-1
getUint32(from, len) ==
    BigEndianUint32([k \in 0..3 |->
        IF k >= maxUintLen32 - len THEN from[k - (maxUintLen32 - len)] ELSE 0])

(* ---------------------------------------------------------------------- *)
(* The Cache struct and its private methods                                *)
(* ---------------------------------------------------------------------- *)
nodeLen(c) == c.valLen + 2 * c.idxLen

\* make([]byte, size): a zeroed array with offsets 0..size-1
MakeBytes(size) == [p \in 0..(size - 1) |-> 0]

lenMemory(c) == Cardinality(DOMAIN c.memory)

\* the idxLen that newCache gives a cache of capacity n
idxLenOf(n) == log(n, bitsPerByte) \div bitsPerByte

newCache(l, n) ==
    LET idxLen == idxLenOf(n)
        valLen == l \div bitsPerByte
    IN  [memory |-> MakeBytes(n * (valLen + 2 * idxLen)),
         length |-> 0,
         idxLen |-> idxLen,
         valLen |-> valLen,
         maxCap |-> n]

\* c.memory[lo:hi] passes Go's slice bounds check
sliceOK(c, lo, hi) == 0 <= lo /\ lo <= hi /\ hi <= lenMemory(c)

\* c.memory[lo:hi] as an array with offsets 0..hi-lo-1
slice(c, lo, hi) == [k \in 0..(hi - lo - 1) |-> c.memory[lo + k]]

valOK(c, i) == sliceOK(c, i * nodeLen(c), i * nodeLen(c) + c.valLen)

\* val(i): the value of the i-th node, as a byte sequence
val(c, i) ==
    LET valPos == i * nodeLen(c)
    IN  [j \in 1..c.valLen |-> c.memory[valPos + j - 1]]

idxLOK(c, i) ==
    LET idxPos == i * nodeLen(c) + c.valLen
    IN  sliceOK(c, idxPos, idxPos + c.idxLen)

idxL(c, i) ==
    LET idxPos == i * nodeLen(c) + c.valLen
    IN  getUint32(slice(c, idxPos, idxPos + c.idxLen), c.idxLen)

idxROK(c, i) ==
    LET idxPos == i * nodeLen(c) + c.valLen + c.idxLen
    IN  sliceOK(c, idxPos, idxPos + c.idxLen)

idxR(c, i) ==
    LET idxPos == i * nodeLen(c) + c.valLen + c.idxLen
    IN  getUint32(slice(c, idxPos, idxPos + c.idxLen), c.idxLen)

\* the first j bytes of value can be stored at offset valPos without a panic
setValOK(c, i, value) ==
    \A j \in 0..(Len(value) - 1) : (i * nodeLen(c) + j) \in DOMAIN c.memory

\* setVal that appends the value to the array
setValAppend(c, i, value) ==
    [c EXCEPT !.memory = [p \in 0..(lenMemory(c) + Len(value) - 1) |->
        IF p < lenMemory(c) THEN c.memory[p] ELSE value[p - lenMemory(c) + 1]]]

\* setVal that stores every value in the first node
setValFirst(c, i, value) ==
    [c EXCEPT !.memory = [p \in DOMAIN c.memory |->
        IF p < Len(value) THEN value[p + 1] ELSE c.memory[p]]]

setVal(c, i, value) ==
    LET valPos == i * nodeLen(c)
    IN  [c EXCEPT !.memory = [p \in DOMAIN c.memory |->
            IF p >= valPos /\ p < valPos + Len(value)
            THEN value[p - valPos + 1] ELSE c.memory[p]]]

setIdxL(c, i, idxVal) ==
    LET idxPos == i * nodeLen(c) + c.valLen
    IN  [c EXCEPT !.memory = [p \in DOMAIN c.memory |->
            IF p >= idxPos /\ p < idxPos + c.idxLen
            THEN putUint32(c.idxLen, idxVal)[p - idxPos] ELSE c.memory[p]]]

setIdxR(c, i, idxVal) ==
    LET idxPos == i * nodeLen(c) + c.valLen + c.idxLen
    IN  [c EXCEPT !.memory = [p \in DOMAIN c.memory |->
            IF p >= idxPos /\ p < idxPos + c.idxLen
            THEN putUint32(c.idxLen, idxVal)[p - idxPos] ELSE c.memory[p]]]

\* look with the equal case missing: an equal value counts as greater
lookNoEqual(c, i, value) ==
    IF ~valOK(c, i) THEN [ok |-> FALSE, next |-> 0, left |-> FALSE]
    ELSE IF Compare(val(c, i), value) = 1
         THEN [ok |-> idxLOK(c, i),
               next |-> IF idxLOK(c, i) THEN idxL(c, i) ELSE 0,
               left |-> TRUE]
         ELSE [ok |-> idxROK(c, i),
               next |-> IF idxROK(c, i) THEN idxR(c, i) ELSE 0,
               left |-> FALSE]

\* look(i, val): [next, left]; ok is FALSE when a slice bound check fails
look(c, i, value) ==
    IF ~valOK(c, i) THEN [ok |-> FALSE, next |-> 0, left |-> FALSE]
    ELSE LET cmp == Compare(val(c, i), value)
         IN  IF cmp = 0 THEN [ok |-> TRUE, next |-> -1, left |-> FALSE]
             ELSE IF cmp = 1
                  THEN [ok |-> idxLOK(c, i),
                        next |-> IF idxLOK(c, i) THEN idxL(c, i) ELSE 0,
                        left |-> TRUE]
                  ELSE [ok |-> idxROK(c, i),
                        next |-> IF idxROK(c, i) THEN idxR(c, i) ELSE 0,
                        left |-> FALSE]

\* insert(i, val): the cache afterwards; ok is FALSE when the call panics
RECURSIVE insert(_, _, _)
insert(c, i, value) ==
    LET r == look(c, i, value)
    IN  IF ~r.ok THEN [ok |-> FALSE, c |-> c]
        ELSE IF r.next = -1 THEN [ok |-> TRUE, c |-> c]
        ELSE IF r.next = 0
             THEN IF ~setValOK(c, c.length, value)
                  THEN [ok |-> FALSE, c |-> c]
                  ELSE LET c1 == setVal(c, c.length, value)
                           c2 == IF r.left
                                 THEN setIdxL(c1, i, c.length)
                                 ELSE setIdxR(c1, i, c.length)
                       IN  [ok |-> TRUE,
                            c |-> [c2 EXCEPT !.length = c.length + 1]]
        ELSE insert(c, r.next, value)

\* recall with the results of the cases -1 and 0 swapped at the leaf
RECURSIVE recallSwapped(_, _, _)
recallSwapped(c, i, value) ==
    LET r == look(c, i, value)
    IN  IF ~r.ok THEN [ok |-> FALSE, cached |-> FALSE]
        ELSE IF r.next = -1 THEN [ok |-> TRUE, cached |-> TRUE]
        ELSE IF r.next = 0 THEN [ok |-> TRUE, cached |-> TRUE]
        ELSE recallSwapped(c, r.next, value)

\* recall(i, val): cached is the result; ok is FALSE when the call panics
RECURSIVE recall(_, _, _)
recall(c, i, value) ==
    LET r == look(c, i, value)
    IN  IF ~r.ok THEN [ok |-> FALSE, cached |-> FALSE]
        ELSE IF r.next = -1 THEN [ok |-> TRUE, cached |-> TRUE]
        ELSE IF r.next = 0 THEN [ok |-> TRUE, cached |-> FALSE]
        ELSE recall(c, r.next, value)

(* ---------------------------------------------------------------------- *)
(* The public methods, as functions of the cache                           *)
(* ---------------------------------------------------------------------- *)
Length(c) == c.length

Size(c) == lenMemory(c)

\* Insert without the test for a full cache
InsertNoFullCheck(c, value) ==
    IF Len(value) # c.valLen THEN [e |-> ErrInsertLen, c |-> c]
    ELSE LET r == insert(c, 0, value)
         IN  [e |-> IF r.ok THEN Nil ELSE Panic, c |-> r.c]

\* Insert without the test of the value's length
InsertNoLenCheck(c, value) ==
    IF c.length = c.maxCap THEN [e |-> ErrInsertFull, c |-> c]
    ELSE LET r == insert(c, 0, value)
         IN  [e |-> IF r.ok THEN Nil ELSE Panic, c |-> r.c]

\* Insert(value): the error returned (or Panic) and the cache afterwards
Insert(c, value) ==
    IF c.length = c.maxCap THEN [e |-> ErrInsertFull, c |-> c]
    ELSE IF Len(value) # c.valLen THEN [e |-> ErrInsertLen, c |-> c]
    ELSE LET r == insert(c, 0, value)
         IN  [e |-> IF r.ok THEN Nil ELSE Panic, c |-> r.c]

\* Recall(value): the pair (cached, e)
Recall(c, value) ==
    IF Len(value) # c.valLen THEN [e |-> ErrRecallLen, cached |-> FALSE]
    ELSE LET r == recall(c, 0, value)
         IN  [e |-> IF r.ok THEN Nil ELSE Panic, cached |-> r.cached]

\* a byte array with offsets 0..len-1, as a sequence
BytesOf(b, len) == [j \in 1..len |-> b[j - 1]]

\* Last(): the value of the last node, or the nil slice (here <<>>)
Last(c) == IF c.length = 0 THEN <<>> ELSE val(c, c.length - 1)

\* Full(): whether the cache holds as many values as it can
Full(c) == c.length = c.maxCap

\* the loop of Save writing whole nodes, child indices included
RECURSIVE saveNodes(_, _)
saveNodes(c, i) ==
    IF i >= c.length THEN <<>>
    ELSE BytesOf(slice(c, i * nodeLen(c), (i + 1) * nodeLen(c)), nodeLen(c))
             \o saveNodes(c, i + 1)

\* the loop of Save: the values of the nodes i, i+1, ..., length-1
RECURSIVE saveValues(_, _)
saveValues(c, i) ==
    IF i >= c.length THEN <<>> ELSE val(c, i) \o saveValues(c, i + 1)

\* Save(writer): the bytes written to an empty bytes.Buffer (it never fails)
Save(c) ==
    BytesOf(BigEndianPutUint32(c.valLen), 4)
        \o BytesOf(BigEndianPutUint32(c.length), 4)
        \o saveValues(c, 0)

\* binary.Read of a uint32: ok is FALSE when fewer than four bytes are left
binaryReadUint32(stream) ==
    IF Len(stream) < 4
    THEN [ok |-> FALSE, v |-> 0, rest |-> <<>>,
          e |-> IF Len(stream) = 0 THEN ErrEOF ELSE "unexpected EOF"]
    ELSE [ok |-> TRUE,
          v |-> BigEndianUint32([k \in 0..3 |-> stream[k + 1]]),
          rest |-> SubSeq(stream, 5, Len(stream)), e |-> Nil]

\* bytes.Buffer.Read(value): copies min(len(value), left) bytes into value
readerRead(stream, value) ==
    LET n == IF Len(stream) < Len(value) THEN Len(stream) ELSE Len(value)
    IN  IF Len(stream) = 0 /\ Len(value) > 0
        THEN [e |-> ErrEOF, value |-> value, rest |-> stream]
        ELSE [e |-> Nil,
              value |-> [j \in 1..Len(value) |->
                            IF j <= n THEN stream[j] ELSE value[j]],
              rest |-> SubSeq(stream, n + 1, Len(stream))]

\* the loop of Load: i values are still to be read
RECURSIVE loadLoop(_, _, _, _)
loadLoop(c, stream, value, i) ==
    IF i = 0 THEN [e |-> Nil, c |-> c, rest |-> stream]
    ELSE LET rd == readerRead(stream, value)
         IN  IF rd.e # Nil THEN [e |-> rd.e, c |-> c, rest |-> rd.rest]
             ELSE LET r == insert(c, 0, rd.value)
                  IN  IF ~r.ok THEN [e |-> Panic, c |-> r.c, rest |-> rd.rest]
                      ELSE loadLoop(r.c, rd.rest, rd.value, i - 1)

\* Load without the test of the stored value length
LoadNoLenCheck(c, stream) ==
    LET h1 == binaryReadUint32(stream)
        h2 == binaryReadUint32(h1.rest)
    IN  IF ~h1.ok THEN [e |-> h1.e, c |-> c, rest |-> h1.rest]
        ELSE IF ~h2.ok THEN [e |-> h2.e, c |-> c, rest |-> h2.rest]
        ELSE IF h2.v > c.maxCap - c.length
             THEN [e |-> ErrLoadFull, c |-> c, rest |-> h2.rest]
        ELSE loadLoop(c, h2.rest, [j \in 1..h1.v |-> 0], h2.v)

\* Load(reader): the error, the cache afterwards, the bytes left unread
Load(c, stream) ==
    LET h1 == binaryReadUint32(stream)
        h2 == binaryReadUint32(h1.rest)
    IN  IF ~h1.ok THEN [e |-> h1.e, c |-> c, rest |-> h1.rest]
        ELSE IF ~h2.ok THEN [e |-> h2.e, c |-> c, rest |-> h2.rest]
        ELSE IF h1.v # c.valLen THEN [e |-> ErrLoadLen, c |-> c, rest |-> h2.rest]
        ELSE IF h2.v > c.maxCap - c.length
             THEN [e |-> ErrLoadFull, c |-> c, rest |-> h2.rest]
        ELSE loadLoop(c, h2.rest, [j \in 1..h1.v |-> 0], h2.v)

(* ---------------------------------------------------------------------- *)
(* Sequential use: one caller, caches cache0 and cache1, a bytes.Buffer    *)
(* ---------------------------------------------------------------------- *)
VARIABLES cache0, cache1, buffer, calls, saved, ret

\* the choice of idxLen looked at by itself (below): a capacity, the idxLen
\* newCache gives it, and a slot number stored in idxLen bytes and read back
VARIABLES width

\* the state of concurrent use (below); sequential use leaves it alone.
\* pending holds the offsets of c.memory that the holder of the mutex has
\* stored to and that a goroutine reading without the mutex may still find
\* as they were before
VARIABLES mutex, threads, wrote, returned, panicked, pending

svars == <<cache1, buffer, calls, saved, ret, width>>

cvars == <<mutex, threads, wrote, returned, panicked, pending>>

vars == <<cache0, svars, cvars>>

\* the goroutines of concurrent use, each making one call
Threads == {1, 2, 3}

\* a goroutine that has not made its call yet
Idle ==
    [pc |-> "idle", op |-> "none", value |-> <<>>, i |-> 0, j |-> 0,
     left |-> FALSE, rest |-> <<>>, cnt |-> 0, hdr |-> 0, e |-> Nil,
     vals |-> <<>>, out |-> <<>>, snap |-> <<>>, cached |-> FALSE,
     known |-> FALSE]

ConcInit ==
    /\ mutex = 0
    /\ threads = [t \in Threads |-> Idle]
    /\ wrote = {}
    /\ returned = {}
    /\ panicked = FALSE
    /\ pending = {}

ValLen == ValBits \div bitsPerByte

\* the values of the configured length
Values == [1..ValLen -> Bytes]

Zero == [j \in 1..ValLen |-> 0]

\* one value too short and one too long
BadValues == {[j \in 1..(ValLen - 1) |-> 1], [j \in 1..(ValLen + 1) |-> 0]}

Inputs == Values \cup BadValues

\* the last call: its receiver, argument, results and the receiver's length before
NoRet ==
    [op |-> "none", k |-> 0, value |-> <<>>, e |-> Nil, cached |-> FALSE, pre |-> 0]

NoWidth ==
    [op |-> "none", n |-> 0, idxLen |-> 0, slot |-> 0, stored |-> <<>>, back |-> 0]

Init ==
    /\ \E n \in 0..MaxCap :
          /\ cache0 = newCache(ValBits, n)
          /\ cache1 = newCache(ValBits, n)
    /\ buffer = <<>>
    /\ calls = <<>>
    /\ saved = [done |-> FALSE, calls |-> <<>>, length |-> 0, reads |-> 0]
    /\ ret = NoRet
    /\ width = NoWidth
    /\ ConcInit

Running == ret.e # Panic

RECURSIVE Concat(_)
Concat(vs) == IF vs = <<>> THEN <<>> ELSE Head(vs) \o Concat(Tail(vs))

\* the stream Save writes for the values vs of length l
Encode(l, vs) ==
    BytesOf(BigEndianPutUint32(l), 4)
        \o BytesOf(BigEndianPutUint32(Len(vs)), 4)
        \o Concat(vs)

One == [j \in 1..ValLen |-> IF j = ValLen THEN 1 ELSE 0]

Ones == [j \in 1..ValLen |-> 1]

\* the streams handed to Load: one value, two values, another value length,
\* no header, a count without the values, and a value cut short after its
\* first byte
Streams ==
    {Encode(ValLen, <<v>>) : v \in Values}
        \cup {Encode(ValLen, <<Zero, One>>), Encode(ValLen + 1, <<>>), <<>>,
              SubSeq(Encode(ValLen, <<Zero>>), 1, 8),
              SubSeq(Encode(ValLen, <<Ones>>), 1, 9)}

\* cache0.Insert(value)
CallInsert(value) ==
    /\ Running
    /\ Len(calls) < MaxCalls
    /\ LET r == Insert(cache0, value)
       IN  /\ cache0' = r.c
           /\ calls' = Append(calls, [value |-> value, e |-> r.e,
                                      stored |-> r.c.length > cache0.length])
           /\ ret' = [op |-> "Insert", k |-> 0, value |-> value, e |-> r.e,
                      cached |-> FALSE, pre |-> Length(cache0)]
    /\ UNCHANGED <<cache1, buffer, saved, width, cvars>>

\* cache0.Recall(value) or cache1.Recall(value)
CallRecall(k, value) ==
    /\ Running
    /\ LET c == IF k = 0 THEN cache0 ELSE cache1
           r == Recall(c, value)
       IN  ret' = [op |-> "Recall", k |-> k, value |-> value, e |-> r.e,
                   cached |-> r.cached, pre |-> Length(c)]
    /\ UNCHANGED <<cache0, cache1, buffer, calls, saved, width, cvars>>

\* cache0.Save(&buffer) into an empty buffer
CallSave ==
    /\ Running
    /\ buffer' = Save(cache0)
    /\ saved' = [done |-> TRUE, calls |-> calls, length |-> Length(cache0),
                 reads |-> 0]
    /\ ret' = [op |-> "Save", k |-> 0, value |-> <<>>, e |-> Nil, cached |-> FALSE,
               pre |-> Length(cache0)]
    /\ UNCHANGED <<cache0, cache1, calls, width, cvars>>

\* cache1.Load(&buffer)
CallLoad ==
    /\ Running
    /\ saved.done
    /\ LET r == Load(cache1, buffer)
       IN  /\ cache1' = r.c
           /\ buffer' = r.rest
           /\ ret' = [op |-> "Load", k |-> 1, value |-> <<>>, e |-> r.e,
                      cached |-> FALSE, pre |-> Length(cache1)]
    /\ saved' = [saved EXCEPT !.reads = 1]
    /\ UNCHANGED <<cache0, calls, width, cvars>>

Next ==
    \/ \E value \in Inputs : CallInsert(value)
    \/ \E k \in 0..1, value \in Inputs : CallRecall(k, value)
    \/ CallSave
    \/ CallLoad

Spec == Init /\ [][Next]_vars

\* cache0.Load(reader) with a reader that holds stream; buffer is what the
\* reader is left with
CallLoadStream(stream) ==
    /\ Running
    /\ LET r == Load(cache0, stream)
       IN  /\ cache0' = r.c
           /\ buffer' = r.rest
           /\ ret' = [op |-> "Load", k |-> 0, value |-> stream, e |-> r.e,
                      cached |-> FALSE, pre |-> Length(cache0)]
    /\ UNCHANGED <<cache1, calls, saved, width, cvars>>

\* cache0.Insert(value), any number of times (calls keeps no record of it)
OpInsert(value) ==
    /\ Running
    /\ LET r == Insert(cache0, value)
       IN  /\ cache0' = r.c
           /\ ret' = [op |-> "Insert", k |-> 0, value |-> value, e |-> r.e,
                      cached |-> FALSE, pre |-> Length(cache0)]
    /\ UNCHANGED <<cache1, buffer, calls, saved, width, cvars>>

\* sequential use with Load into the cache that Insert populates
NextOps ==
    \/ \E value \in Inputs : OpInsert(value)
    \/ \E stream \in Streams : CallLoadStream(stream)
    \/ CallSave

SpecOps == Init /\ [][NextOps]_vars

\* the capacities looked at: the small ones and those about the powers of 256
Capacities ==
    (0..MaxWidthCap) \cup {255, 256, 257, 65535, 65536, 65537, 4194304, 16777216}

\* newCache(l, n), as far as idxLen goes
WidthNew(n) ==
    /\ width' = [op |-> "new", n |-> n, idxLen |-> idxLenOf(n), slot |-> 0,
                 stored |-> <<>>, back |-> 0]
    /\ UNCHANGED <<cache0, cache1, buffer, calls, saved, ret, cvars>>

\* setIdxL or setIdxR with the slot number i, then idxL or idxR of the same
\* node: putUint32 into idxLen bytes and getUint32 from them
WidthStore(i) ==
    /\ width.op # "none"
    /\ 0 <= i /\ i < width.n
    /\ LET into == putUint32(width.idxLen, i)
       IN  width' = [width EXCEPT !.op = "store", !.slot = i,
                                  !.stored = BytesOf(into, width.idxLen),
                                  !.back = getUint32(into, width.idxLen)]
    /\ UNCHANGED <<cache0, cache1, buffer, calls, saved, ret, cvars>>

NextWidth ==
    \/ \E n \in Capacities : WidthNew(n)
    \/ \E i \in {0, 1, width.n \div 2, width.n - 2, width.n - 1} : WidthStore(i)

SpecWidth == Init /\ [][NextWidth]_vars

(* ---------------------------------------------------------------------- *)
(* Properties of sequential use                                            *)
(* ---------------------------------------------------------------------- *)
\* the values whose Insert on cache0 returned no error, among the calls cs
Succeeded(cs) == {cs[i].value : i \in {j \in 1..Len(cs) : cs[j].e = Nil}}

\* value is stored in an occupied slot of c
Stored(c, value) == \E i \in 0..(c.length - 1) : val(c, i) = value

\* the calls so far are Inserts of distinct values of the right length,
\* no more of them than the capacity
DistinctValid(cs) ==
    /\ \A i \in 1..Len(cs) : cs[i].value \in Values
    /\ \A i, j \in 1..Len(cs) : i # j => cs[i].value # cs[j].value

\* this step is a call of cache0.Insert
InsertStep == Len(calls') = Len(calls) + 1

\* C1: after Insert of k <= capacity distinct values of the right length on
\* a fresh cache, every Insert returned no error, every one of the values is
\* recalled, and Length() is k.
C1_InsertedAreRecalled ==
    (DistinctValid(calls) /\ Len(calls) <= cache0.maxCap) =>
        /\ \A i \in 1..Len(calls) : calls[i].e = Nil
        /\ \A i \in 1..Len(calls) :
              Recall(cache0, calls[i].value) = [e |-> Nil, cached |-> TRUE]
        /\ Length(cache0) = Len(calls)

\* C2: on a fresh cache Recall of any value of the right length returns
\* false and no error.
C2_FreshRecallsNothing ==
    (calls = <<>> /\ ret.op = "Recall" /\ ret.k = 0 /\ ret.value \in Values) =>
        (ret.e = Nil /\ ret.cached = FALSE)

C4_RoundTrip ==
    (ret.op = "Load" /\ saved.reads = 1 /\ ret.pre = 0 /\ saved.length > 0) =>
        /\ ret.e = Nil
        /\ \A v \in Succeeded(saved.calls) :
              Recall(cache1, v) = [e |-> Nil, cached |-> TRUE]
        /\ Length(cache1) = saved.length

\* C5: Insert on a full cache returns the capacity error and leaves the
\* length and every byte of the array as they were, whatever the value.
C5_FullInsertFails ==
    [][(InsertStep /\ cache0.length = cache0.maxCap) =>
           (ret'.e = ErrInsertFull /\ cache0' = cache0)]_vars

\* an Insert of a stored value was refused by a full cache
C5_Witness ==
    /\ ret.op = "Insert" /\ ret.e = ErrInsertFull
    /\ cache0.maxCap > 0 /\ cache0.length = cache0.maxCap
    /\ Stored(cache0, ret.value)

\* the error a call with a value of the wrong length returns, per C6
C6_LengthError(op) == IF op = "Insert" THEN ErrInsertLen ELSE ErrRecallLen

\* C6 as stated: Insert and Recall of a value of the wrong length always
\* fail with the length error and never change a cache.
C6_AlwaysLengthError ==
    [][(ret'.op \in {"Insert", "Recall"} /\ Len(ret'.value) # cache0.valLen) =>
           /\ ret'.e = C6_LengthError(ret'.op)
           /\ cache0' = cache0 /\ cache1' = cache1]_vars

\* C6 amended: Recall of a value of the wrong length fails with the length
\* error; Insert of one fails with the length error unless the cache is
\* full, and then with the capacity error; neither changes a cache.
C6_LengthErrorUnlessFull ==
    [][(ret'.op \in {"Insert", "Recall"} /\ Len(ret'.value) # cache0.valLen) =>
           /\ ret'.e = IF ret'.op = "Insert" /\ cache0.length = cache0.maxCap
                        THEN ErrInsertFull
                        ELSE C6_LengthError(ret'.op)
           /\ cache0' = cache0 /\ cache1' = cache1]_vars

\* an Insert of a value of the wrong length into a cache with free space
C6_Witness ==
    /\ ret.op = "Insert" /\ Len(ret.value) # cache0.valLen
    /\ ret.e = ErrInsertLen
    /\ cache0.length >= 1 /\ cache0.length < cache0.maxCap

\* C7 as stated: Insert of a stored value returns no error in every state,
\* a full cache included.
C7_StoredInsertNoError ==
    [][(InsertStep /\ Stored(cache0, ret'.value)) => ret'.e = Nil]_vars

\* C7 amended: Insert of a stored value changes nothing; it returns no
\* error unless the cache is full, and then the capacity error.
C7_StoredInsertNoOp ==
    [][(InsertStep /\ Stored(cache0, ret'.value)) =>
           /\ cache0' = cache0
           /\ ret'.e = IF cache0.length = cache0.maxCap
                        THEN ErrInsertFull ELSE Nil]_vars

\* an Insert of a stored value into a cache with free space returned nil
C7_Witness ==
    /\ ret.op = "Insert" /\ ret.e = Nil
    /\ ret.pre >= 1 /\ ret.pre = cache0.length /\ cache0.length < cache0.maxCap
    /\ Stored(cache0, ret.value)

\* C8: an Insert of the value that the Insert before it was given (and
\* returned no error for) leaves the length and the whole array unchanged.
C8_Idempotent ==
    [][(/\ InsertStep
        /\ Len(calls) >= 1
        /\ calls[Len(calls)].value = ret'.value
        /\ calls[Len(calls)].e = Nil) => cache0' = cache0]_vars

\* the same value was inserted twice in a row
C8_Witness ==
    /\ Len(calls) >= 2
    /\ calls[Len(calls)].value = calls[Len(calls) - 1].value
    /\ calls[Len(calls) - 1].e = Nil
    /\ calls[Len(calls)].e = Nil
    /\ Stored(cache0, calls[Len(calls)].value)

\* the values that the Insert calls cs stored, in the order of the calls
StoredOrder(cs) ==
    LET st == SelectSeq(cs, LAMBDA c : c.stored)
    IN  [k \in 1..Len(st) |-> st[k].value]

\* C12: Save writes valLen as 4 big-endian bytes, then the length as 4
\* big-endian bytes, then the value fields (no child indices) of the slots
\* 0..length-1, which are the stored values in insertion order, each once:
\* 8 + length*valLen bytes in all.
C12_SaveFormat ==
    (ret.op = "Save") =>
        LET n == cache0.length
            vl == cache0.valLen
        IN  /\ Len(buffer) = 8 + n * vl
            /\ SubSeq(buffer, 1, 4) = <<0, 0, 0, vl>>
            /\ SubSeq(buffer, 5, 8) = <<0, 0, 0, n>>
            /\ \A i \in 0..(n - 1), j \in 1..vl :
                  buffer[8 + i * vl + j] = cache0.memory[i * nodeLen(cache0) + j - 1]
            /\ n = Len(StoredOrder(calls))
            /\ \A i \in 0..(n - 1) :
                  SubSeq(buffer, 8 + i * vl + 1, 8 + (i + 1) * vl)
                      = StoredOrder(calls)[i + 1]
            /\ \A i, k \in 0..(n - 1) : i # k =>
                  SubSeq(buffer, 8 + i * vl + 1, 8 + (i + 1) * vl)
                      # SubSeq(buffer, 8 + k * vl + 1, 8 + (k + 1) * vl)

\* a cache of two values, with child indices one byte wide, was saved
C12_Witness ==
    /\ ret.op = "Save"
    /\ cache0.length = 2 /\ cache0.idxLen = 1
    /\ Len(buffer) = 8 + 2 * cache0.valLen

\* C15: Last() is nil (here <<>>) exactly when Length() is 0 and the value of
\* slot length-1 otherwise; after an Insert that returns no error for a value
\* not stored before, Last() is that value; an Insert of a stored value
\* leaves Last() as it was.
C15_LastIsNewest ==
    [][InsertStep =>
          /\ (Last(cache0') = <<>>) <=> (Length(cache0') = 0)
          /\ Length(cache0') > 0 => Last(cache0') = val(cache0', cache0'.length - 1)
          /\ (ret'.e = Nil /\ ~Stored(cache0, ret'.value)) => Last(cache0') = ret'.value
          /\ Stored(cache0, ret'.value) => Last(cache0') = Last(cache0)]_vars

\* C16: Full() is true exactly when Length() is the capacity; on a fresh
\* cache it is false after each of the first capacity-1 Inserts of distinct
\* values and true from the capacity-th on.
C16_FullAtCapacity ==
    /\ Full(cache0) <=> (Length(cache0) = cache0.maxCap)
    /\ DistinctValid(calls) =>
          /\ Len(calls) < cache0.maxCap => ~Full(cache0)
          /\ Len(calls) >= cache0.maxCap => Full(cache0)

\* the number that the four bytes of stream from offset from on spell out
StreamUint32(stream, from) ==
    ((stream[from + 1] * 256 + stream[from + 2]) * 256 + stream[from + 3]) * 256
        + stream[from + 4]

\* this step is a call of cache0.Load, of the stream ret'.value
LoadStep == ret'.op = "Load" /\ ret'.k = 0

\* C13: a Load of a stream whose header has another value length returns the
\* value-length error; a Load of a stream with the cache's value length whose
\* count is greater than capacity - length returns the capacity error; either
\* way the cache (its length and its array) is as before.
C13_LoadRejectsByHeader ==
    [][(LoadStep /\ Len(ret'.value) >= 8) =>
          LET stored == StreamUint32(ret'.value, 0)
              count == StreamUint32(ret'.value, 4)
          IN  /\ stored # cache0.valLen =>
                    (ret'.e = ErrLoadLen /\ cache0' = cache0)
              /\ (stored = cache0.valLen /\ count > cache0.maxCap - Length(cache0)) =>
                    (ret'.e = ErrLoadFull /\ cache0' = cache0)]_vars

\* a Load was refused for its count by a cache that holds a value and has room
\* for one more
C13_Witness ==
    /\ ret.op = "Load" /\ ret.k = 0
    /\ ret.e = ErrLoadFull
    /\ cache0.length = 1 /\ cache0.maxCap = 2
    /\ StreamUint32(ret.value, 4) = 2

\* the values stored in the occupied slots of c
StoredSet(c) == {val(c, i) : i \in 0..(c.length - 1)}

\* the values that stream holds: the records of the stored value length that
\* follow its header, as many as its count says and as are there in full
StreamValues(stream) ==
    LET l == StreamUint32(stream, 0)
        n == StreamUint32(stream, 4)
    IN  {SubSeq(stream, 8 + i * l + 1, 8 + (i + 1) * l) :
             i \in {k \in 0..(n - 1) : 8 + (k + 1) * l <= Len(stream)}}

\* C14: after a Load into a non-empty cache that returns no error, the stored
\* values are those stored before together with those of the stream, each
\* once, and Length() is the number of them.
C14_LoadMerges ==
    [][(LoadStep /\ ret'.e = Nil /\ Length(cache0) > 0) =>
          /\ StoredSet(cache0') = StoredSet(cache0) \cup StreamValues(ret'.value)
          /\ Length(cache0') =
                 Cardinality(StoredSet(cache0) \cup StreamValues(ret'.value))]_vars

\* C17: Size() is capacity * (valLen + 2 * idxLen) on a fresh cache (144 for
\* NewCache128(8)) and in every state after it; no call of Insert, Load or
\* Save changes the extent of the array, valLen, idxLen or the capacity.
C17_SizeNeverChanges ==
    /\ Size(newCache(128, 8)) = 144
    /\ Size(cache0) = cache0.maxCap * (cache0.valLen + 2 * cache0.idxLen)
    /\ [][/\ Size(cache0') = cache0'.maxCap * (cache0'.valLen + 2 * cache0'.idxLen)
          /\ Size(cache0') = Size(cache0)
          /\ DOMAIN cache0'.memory = DOMAIN cache0.memory
          /\ cache0'.valLen = cache0.valLen
          /\ cache0'.idxLen = cache0.idxLen
          /\ cache0'.maxCap = cache0.maxCap]_vars

\* a cache of capacity 2, filled by Insert and Load and then saved
C17_Witness ==
    /\ ret.op = "Save"
    /\ cache0.maxCap = 2 /\ cache0.length = 2
    /\ Size(cache0) = 2 * (ValLen + 2)
    /\ \E i \in 1..Len(buffer) : buffer[i] # 0

\* the slots of the subtree of c whose root is slot i, to the depth fuel
RECURSIVE Subtree(_, _, _)
Subtree(c, i, fuel) ==
    IF fuel = 0 \/ i >= c.length THEN {}
    ELSE {i}
         \cup (IF idxL(c, i) = 0 THEN {} ELSE Subtree(c, idxL(c, i), fuel - 1))
         \cup (IF idxR(c, i) = 0 THEN {} ELSE Subtree(c, idxR(c, i), fuel - 1))

\* the occupied slots of c are a binary search tree with its root in slot 0
ValidTree(c) ==
    /\ \A i \in 0..(c.length - 1) :
          /\ idxL(c, i) \in 0..(c.length - 1)
          /\ idxR(c, i) \in 0..(c.length - 1)
          /\ idxL(c, i) # 0 =>
                \A k \in Subtree(c, idxL(c, i), c.length) :
                    Compare(val(c, k), val(c, i)) = -1
          /\ idxR(c, i) # 0 =>
                \A k \in Subtree(c, idxR(c, i), c.length) :
                    Compare(val(c, k), val(c, i)) = 1
    /\ Subtree(c, 0, c.length) = 0..(c.length - 1)
    /\ \A i, k \in 0..(c.length - 1) : i # k => val(c, i) # val(c, k)

ChangedIdx(c, d) ==
    {p \in DOMAIN c.memory :
        /\ p % nodeLen(c) >= c.valLen
        /\ c.memory[p] # d.memory[p]}

\* the (slot, side) pairs of occupied nodes of c whose child index is 0 in c
\* and n in d
NewLinks(c, d, n) ==
    {<<i, "L">> : i \in {k \in 0..(c.length - 1) : idxL(c, k) = 0 /\ idxL(d, k) = n}}
        \cup
    {<<i, "R">> : i \in {k \in 0..(c.length - 1) : idxR(c, k) = 0 /\ idxR(d, k) = n}}

\* no step overwrites the value of an occupied slot or changes a child index
\* that is not 0; c is the cache before the step and d the cache after it
NothingOverwritten(c, d) ==
    /\ d.length >= c.length
    /\ \A i \in 0..(c.length - 1) :
          /\ val(d, i) = val(c, i)
          /\ idxL(c, i) # 0 => idxL(d, i) = idxL(c, i)
          /\ idxR(c, i) # 0 => idxR(d, i) = idxR(c, i)

\* what an Insert that stores its value does to the cache c, giving d: the
\* new length, the value in slot c.length, nothing changed in the value
\* fields of other slots
StoresInSlotLength(c, d, value) ==
    /\ d.length = c.length + 1
    /\ val(d, c.length) = value
    /\ \A p \in DOMAIN c.memory :
          (p % nodeLen(c) < c.valLen /\ p \div nodeLen(c) # c.length) =>
              d.memory[p] = c.memory[p]

\* this step is a call of cache0.Insert that stores its value
StoringInsert == ret'.op = "Insert" /\ cache0'.length # cache0.length

SmallestWidth(n, idxLen) ==
    /\ Pow(256, idxLen) >= n
    /\ idxLen >= 1 => Pow(256, idxLen - 1) < n

\* C21 as stated: idxLen is 0 only at capacity 0 and at least 1 from capacity
\* 1 on; it is the least number of bytes that holds every slot number below
\* the capacity (1 for 8 and for 256, 2 for 257, 3 for 2^22), and a slot
\* number stored in idxLen bytes is read back as it was.
C21_IndexWidth ==
    /\ width.n >= 1 => width.idxLen >= 1
    /\ width.n >= 1 => SmallestWidth(width.n, width.idxLen)
    /\ idxLenOf(8) = 1 /\ idxLenOf(256) = 1 /\ idxLenOf(257) = 2
    /\ idxLenOf(4194304) = 3
    /\ width.op = "store" =>
          (Len(width.stored) = width.idxLen /\ width.back = width.slot)

\* C21, amended: idxLen is 0 at the capacities 0 and 1 and at least 1 from
\* capacity 2 on; the rest as C21_IndexWidth.
C21_IndexWidthFromTwo ==
    /\ width.idxLen = 0 <=> width.n <= 1
    /\ width.n >= 1 => SmallestWidth(width.n, width.idxLen)
    /\ idxLenOf(8) = 1 /\ idxLenOf(256) = 1 /\ idxLenOf(257) = 2
    /\ idxLenOf(4194304) = 3
    /\ width.op = "store" =>
          (Len(width.stored) = width.idxLen /\ width.back = width.slot)

\* the last slot number of a cache of capacity 257 was stored in 2 bytes
C21_Witness ==
    /\ width.op = "store"
    /\ width.n = 257 /\ width.idxLen = 2
    /\ width.slot = 256
    /\ width.stored = <<1, 0>>
    /\ width.back = 256

\* every child index of an occupied slot of c that is not 0 points at a later
\* occupied slot
ChildrenAscend(c) ==
    \A i \in 0..(c.length - 1) :
        /\ idxL(c, i) # 0 => (i < idxL(c, i) /\ idxL(c, i) < c.length)
        /\ idxR(c, i) # 0 => (i < idxR(c, i) /\ idxR(c, i) < c.length)

\* the slots whose value insert or recall compares value with, from slot i
\* on, one call of look each, at most fuel of them
RECURSIVE Descent(_, _, _, _)
Descent(c, i, value, fuel) ==
    LET r == look(c, i, value)
    IN  IF fuel <= 1 \/ ~r.ok \/ r.next <= 0 THEN <<i>>
        ELSE <<i>> \o Descent(c, r.next, value, fuel - 1)

\* the slot numbers of d grow from each to the next
Increasing(d) == \A k \in 1..(Len(d) - 1) : d[k] < d[k + 1]

\* C22: in every state each child index c other than 0 of an occupied slot i
\* has i < c < length, and the descent of a Recall (the same as that of an
\* Insert) visits slots of growing number and makes at most length
\* comparisons.
C22_ChildrenAscend ==
    /\ ChildrenAscend(cache0)
    /\ (ret.op = "Recall" /\ ret.k = 0 /\ ret.e = Nil) =>
          LET d == Descent(cache0, 0, ret.value, cache0.length + 2)
          IN  /\ Increasing(d)
              /\ Len(d) <= cache0.length

\* C23: with one caller no call of Insert, Recall, Last, Length, Size, Save
\* or Load reads or writes outside the array, whatever the capacity (0 and 1
\* included): no call panics, and the slots that Last and Save read lie
\* within the array.
C23_NoFault ==
    /\ ret.e # Panic
    /\ \A c \in {cache0, cache1} :
          /\ Size(c) = c.maxCap * nodeLen(c)
          /\ \A i \in 0..(Length(c) - 1) : valOK(c, i)

(* ---------------------------------------------------------------------- *)
(* Concurrent use: goroutines calling Insert, Load and Save on cache0      *)
(* ---------------------------------------------------------------------- *)
Alive == ~panicked

\* the goroutine leaves its call with error e
Return(t, e) == [threads[t] EXCEPT !.pc = "done", !.e = e]

\* Insert up to the lock: the tests of c.length and of len(value)
InsertBegin(t, value) ==
    /\ Alive
    /\ threads[t].pc = "idle"
    /\ IF cache0.length = cache0.maxCap
       THEN /\ threads' = [threads EXCEPT ![t] =
                              [Return(t, ErrInsertFull) EXCEPT !.op = "Insert",
                                                               !.value = value]]
            /\ returned' = returned \cup
                   {[t |-> t, op |-> "Insert", vals |-> <<value>>, e |-> ErrInsertFull]}
       ELSE IF Len(value) # cache0.valLen
       THEN /\ threads' = [threads EXCEPT ![t] =
                              [Return(t, ErrInsertLen) EXCEPT !.op = "Insert",
                                                              !.value = value]]
            /\ returned' = returned \cup
                   {[t |-> t, op |-> "Insert", vals |-> <<value>>, e |-> ErrInsertLen]}
       ELSE /\ threads' = [threads EXCEPT ![t] =
                              [@ EXCEPT !.pc = "lock", !.op = "Insert",
                                        !.value = value, !.vals = <<value>>]]
            /\ UNCHANGED returned
    /\ UNCHANGED <<cache0, svars, mutex, wrote, panicked, pending>>

\* Load up to the lock: the two binary.Read calls on the goroutine's reader
LoadBegin(t, stream) ==
    /\ Alive
    /\ threads[t].pc = "idle"
    /\ LET h1 == binaryReadUint32(stream)
           h2 == binaryReadUint32(h1.rest)
       IN  IF ~h1.ok \/ ~h2.ok
           THEN /\ threads' = [threads EXCEPT ![t] =
                       [Return(t, IF h1.ok THEN h2.e ELSE h1.e) EXCEPT !.op = "Load"]]
                /\ returned' = returned \cup
                       {[t |-> t, op |-> "Load", vals |-> <<>>,
                         e |-> IF h1.ok THEN h2.e ELSE h1.e]}
           ELSE /\ threads' = [threads EXCEPT ![t] =
                       [@ EXCEPT !.pc = "lock", !.op = "Load", !.hdr = h1.v,
                                 !.cnt = h2.v, !.rest = h2.rest]]
                /\ UNCHANGED returned
    /\ UNCHANGED <<cache0, svars, mutex, wrote, panicked, pending>>

\* Save up to the lock; its writer is the goroutine's own empty bytes.Buffer
SaveBegin(t) ==
    /\ Alive
    /\ threads[t].pc = "idle"
    /\ threads' = [threads EXCEPT ![t] = [@ EXCEPT !.pc = "lock", !.op = "Save"]]
    /\ UNCHANGED <<cache0, svars, mutex, wrote, returned, panicked, pending>>

\* where a call goes on once it holds the lock
AfterLock(t) ==
    IF threads[t].op = "Insert" THEN "look"
    ELSE IF threads[t].op = "Load" THEN "check"
    ELSE "valLen"

\* a lock that does not wait for its holder
LockNoWait(t) ==
    /\ Alive
    /\ threads[t].pc = "lock"
    /\ mutex' = t
    /\ threads' = [threads EXCEPT ![t] =
           [@ EXCEPT !.pc = AfterLock(t), !.i = 0,
                     !.snap = IF threads[t].op = "Save" THEN cache0 ELSE <<>>]]
    /\ UNCHANGED <<cache0, svars, wrote, returned, panicked, pending>>

\* c.mutex.Lock(); snap records the cache a Save finds when it gets the lock
Lock(t) ==
    /\ Alive
    /\ threads[t].pc = "lock"
    /\ mutex = 0
    /\ mutex' = t
    /\ threads' = [threads EXCEPT ![t] =
           [@ EXCEPT !.pc = AfterLock(t), !.i = 0,
                     !.snap = IF threads[t].op = "Save" THEN cache0 ELSE <<>>]]
    /\ UNCHANGED <<cache0, svars, wrote, returned, panicked, pending>>

\* Save under the lock: binary.Write of uint32(c.valLen)
SaveValLen(t) ==
    /\ Alive
    /\ threads[t].pc = "valLen"
    /\ threads' = [threads EXCEPT ![t] =
           [@ EXCEPT !.pc = "length",
                     !.out = @ \o BytesOf(BigEndianPutUint32(cache0.valLen), 4)]]
    /\ UNCHANGED <<cache0, svars, mutex, wrote, returned, panicked, pending>>

\* Save under the lock: binary.Write of uint32(c.length)
SaveLength(t) ==
    /\ Alive
    /\ threads[t].pc = "length"
    /\ threads' = [threads EXCEPT ![t] =
           [@ EXCEPT !.pc = "write", !.i = 0,
                     !.out = @ \o BytesOf(BigEndianPutUint32(cache0.length), 4)]]
    /\ UNCHANGED <<cache0, svars, mutex, wrote, returned, panicked, pending>>

\* Save's loop: its test and writer.Write(c.val(i))
SaveWrite(t) ==
    /\ Alive
    /\ threads[t].pc = "write"
    /\ threads' = [threads EXCEPT ![t] =
           IF @.i < cache0.length
           THEN [@ EXCEPT !.i = @ + 1, !.out = @ \o val(cache0, threads[t].i)]
           ELSE [@ EXCEPT !.pc = "unlock", !.e = Nil]]
    /\ UNCHANGED <<cache0, svars, mutex, wrote, returned, panicked, pending>>

\* Load under the lock: the tests of the two header fields
LoadCheck(t) ==
    /\ Alive
    /\ threads[t].pc = "check"
    /\ threads' = [threads EXCEPT ![t] =
           IF @.hdr # cache0.valLen
           THEN [@ EXCEPT !.pc = "unlock", !.e = ErrLoadLen]
           ELSE IF @.cnt > cache0.maxCap - cache0.length
           THEN [@ EXCEPT !.pc = "unlock", !.e = ErrLoadFull]
           ELSE [@ EXCEPT !.pc = "read", !.value = [j \in 1..threads[t].hdr |-> 0]]]
    /\ UNCHANGED <<cache0, svars, mutex, wrote, returned, panicked, pending>>

\* Load's loop: its test and reader.Read(value)
LoadRead(t) ==
    /\ Alive
    /\ threads[t].pc = "read"
    /\ LET rd == readerRead(threads[t].rest, threads[t].value)
       IN  threads' = [threads EXCEPT ![t] =
               IF @.cnt = 0 THEN [@ EXCEPT !.pc = "unlock", !.e = Nil]
               ELSE IF rd.e # Nil THEN [@ EXCEPT !.pc = "unlock", !.e = rd.e]
               ELSE [@ EXCEPT !.pc = "look", !.i = 0, !.value = rd.value,
                              !.rest = rd.rest, !.cnt = @ - 1,
                              !.vals = Append(@, rd.value)]]
    /\ UNCHANGED <<cache0, svars, mutex, wrote, returned, panicked, pending>>

\* where insert returns to: the end of Insert or the loop of Load
AfterInsert(t) == IF threads[t].op = "Insert" THEN "unlock" ELSE "read"

\* insert: c.look(i, val) and the switch on its result
InsertLook(t) ==
    /\ Alive
    /\ threads[t].pc = "look"
    /\ LET r == look(cache0, threads[t].i, threads[t].value)
       IN  IF ~r.ok
           THEN panicked' = TRUE /\ UNCHANGED threads
           ELSE /\ UNCHANGED panicked
                /\ threads' = [threads EXCEPT ![t] =
                       IF r.next = -1 THEN [@ EXCEPT !.pc = AfterInsert(t)]
                       ELSE IF r.next = 0
                       THEN [@ EXCEPT !.pc = "setVal", !.j = 0, !.left = r.left]
                       ELSE [@ EXCEPT !.i = r.next]]
    /\ UNCHANGED <<cache0, svars, mutex, wrote, returned, pending>>

\* setVal storing into the first node, whatever the length
InsertSetValFirst(t) ==
    /\ Alive
    /\ threads[t].pc = "setVal"
    /\ LET j == threads[t].j
           pos == j
       IN  /\ wrote' = wrote \cup
                  {[t |-> t, value |-> threads[t].value, slot |-> cache0.length]}
           /\ IF pos \notin DOMAIN cache0.memory
              THEN panicked' = TRUE /\ UNCHANGED <<cache0, threads, pending>>
              ELSE /\ UNCHANGED panicked
                   /\ cache0' = [cache0 EXCEPT !.memory[pos] = threads[t].value[j + 1]]
                   /\ pending' = pending \cup {pos}
                   /\ threads' = [threads EXCEPT ![t] =
                          IF j + 1 < Len(@.value) THEN [@ EXCEPT !.j = j + 1]
                          ELSE [@ EXCEPT !.pc = "setIdx"]]
    /\ UNCHANGED <<svars, mutex, returned>>

\* setVal(c.length, val): one pass of its loop, storing byte j of val
InsertSetVal(t) ==
    /\ Alive
    /\ threads[t].pc = "setVal"
    /\ LET j == threads[t].j
           pos == cache0.length * nodeLen(cache0) + j
       IN  /\ wrote' = wrote \cup
                  {[t |-> t, value |-> threads[t].value, slot |-> cache0.length]}
           /\ IF pos \notin DOMAIN cache0.memory
              THEN panicked' = TRUE /\ UNCHANGED <<cache0, threads, pending>>
              ELSE /\ UNCHANGED panicked
                   /\ cache0' = [cache0 EXCEPT !.memory[pos] = threads[t].value[j + 1]]
                   /\ pending' = pending \cup {pos}
                   /\ threads' = [threads EXCEPT ![t] =
                          IF j + 1 < Len(@.value) THEN [@ EXCEPT !.j = j + 1]
                          ELSE [@ EXCEPT !.pc = "setIdx"]]
    /\ UNCHANGED <<svars, mutex, returned>>

\* the child index set to the slot after the new one
InsertSetIdxNext(t) ==
    /\ Alive
    /\ threads[t].pc = "setIdx"
    /\ cache0' = IF threads[t].left
                 THEN setIdxL(cache0, threads[t].i, cache0.length + 1)
                 ELSE setIdxR(cache0, threads[t].i, cache0.length + 1)
    /\ threads' = [threads EXCEPT ![t] = [@ EXCEPT !.pc = "inc"]]
    /\ LET idxPos == threads[t].i * nodeLen(cache0) + cache0.valLen
                        + (IF threads[t].left THEN 0 ELSE cache0.idxLen)
       IN  pending' = pending \cup (idxPos..(idxPos + cache0.idxLen - 1))
    /\ UNCHANGED <<svars, mutex, wrote, returned, panicked>>

\* setIdxL(i, c.length) or setIdxR(i, c.length)
InsertSetIdx(t) ==
    /\ Alive
    /\ threads[t].pc = "setIdx"
    /\ cache0' = IF threads[t].left
                 THEN setIdxL(cache0, threads[t].i, cache0.length)
                 ELSE setIdxR(cache0, threads[t].i, cache0.length)
    /\ threads' = [threads EXCEPT ![t] = [@ EXCEPT !.pc = "inc"]]
    /\ LET idxPos == threads[t].i * nodeLen(cache0) + cache0.valLen
                        + (IF threads[t].left THEN 0 ELSE cache0.idxLen)
       IN  pending' = pending \cup (idxPos..(idxPos + cache0.idxLen - 1))
    /\ UNCHANGED <<svars, mutex, wrote, returned, panicked>>

\* c.length++
InsertInc(t) ==
    /\ Alive
    /\ threads[t].pc = "inc"
    /\ cache0' = [cache0 EXCEPT !.length = @ + 1]
    /\ threads' = [threads EXCEPT ![t] = [@ EXCEPT !.pc = AfterInsert(t)]]
    /\ UNCHANGED <<svars, mutex, wrote, returned, panicked, pending>>

\* the deferred c.mutex.Unlock() and the return
Unlock(t) ==
    /\ Alive
    /\ threads[t].pc = "unlock"
    /\ mutex' = 0
    /\ threads' = [threads EXCEPT ![t] = [@ EXCEPT !.pc = "done"]]
    /\ returned' = returned \cup
           {[t |-> t, op |-> threads[t].op, vals |-> threads[t].vals,
             e |-> threads[t].e]}
    /\ pending' = {}
    /\ UNCHANGED <<cache0, svars, wrote, panicked>>

\* a store of the mutex holder becomes visible to the goroutines that read
\* c.memory without the mutex; nothing orders this among the stores
Flush(pos) ==
    /\ Alive
    /\ pos \in pending
    /\ pending' = pending \ {pos}
    /\ UNCHANGED <<cache0, svars, mutex, threads, wrote, returned, panicked>>

\* c.memory as a goroutine that does not hold the mutex may find it: a byte
\* at a pending offset is still the zero it was (no byte is stored to twice)
View ==
    [cache0 EXCEPT !.memory =
        [p \in DOMAIN cache0.memory |-> IF p \in pending THEN 0 ELSE cache0.memory[p]]]

\* value is in a slot of cache0 and the call that stored it there has
\* returned
Returned(value) ==
    \E w \in wrote :
        /\ w.value = value
        /\ w.slot < cache0.length
        /\ val(cache0, w.slot) = value
        /\ \E r \in returned : r.t = w.t /\ r.e = Nil

\* Recall up to the call of recall(0, value): the test of len(value); known
\* records whether the value is one that a call that has returned stored
RecallBegin(t, value) ==
    /\ Alive
    /\ threads[t].pc = "idle"
    /\ threads' = [threads EXCEPT ![t] =
           IF Len(value) # cache0.valLen
           THEN [Return(t, ErrRecallLen) EXCEPT !.op = "Recall", !.value = value]
           ELSE [@ EXCEPT !.pc = "recall", !.op = "Recall", !.value = value,
                          !.i = 0, !.known = Returned(value)]]
    /\ UNCHANGED <<cache0, svars, mutex, wrote, returned, panicked, pending>>

\* recall: c.look(i, val), with no lock held, and the switch on its result
RecallLook(t) ==
    /\ Alive
    /\ threads[t].pc = "recall"
    /\ LET r == look(View, threads[t].i, threads[t].value)
       IN  IF ~r.ok
           THEN panicked' = TRUE /\ UNCHANGED threads
           ELSE /\ UNCHANGED panicked
                /\ threads' = [threads EXCEPT ![t] =
                       IF r.next = -1 THEN [Return(t, Nil) EXCEPT !.cached = TRUE]
                       ELSE IF r.next = 0 THEN [Return(t, Nil) EXCEPT !.cached = FALSE]
                       ELSE [@ EXCEPT !.i = r.next]]
    /\ UNCHANGED <<cache0, svars, mutex, wrote, returned, pending>>

ConcNext ==
    \/ \E t \in Threads, value \in Inputs : InsertBegin(t, value)
    \/ \E t \in Threads, stream \in Streams : LoadBegin(t, stream)
    \/ \E t \in Threads : SaveBegin(t)
    \/ \E t \in Threads : Lock(t)
    \/ \E t \in Threads : SaveValLen(t)
    \/ \E t \in Threads : SaveLength(t)
    \/ \E t \in Threads : SaveWrite(t)
    \/ \E t \in Threads : LoadCheck(t)
    \/ \E t \in Threads : LoadRead(t)
    \/ \E t \in Threads : InsertLook(t)
    \/ \E t \in Threads : InsertSetVal(t)
    \/ \E t \in Threads : InsertSetIdx(t)
    \/ \E t \in Threads : InsertInc(t)
    \/ \E t \in Threads : Unlock(t)

SpecConc == Init /\ [][ConcNext]_vars

\* the streams handed to Load beside a Recall: one of two values
RaceStreams == {Encode(ValLen, <<One, Ones>>)}

\* goroutines calling Insert, Load and Recall on cache0
RaceNext ==
    \/ \E t \in Threads, value \in Values : InsertBegin(t, value)
    \/ \E t \in Threads, value \in Inputs : RecallBegin(t, value)
    \/ \E t \in Threads : Lock(t)
    \/ \E t \in Threads : InsertLook(t)
    \/ \E t \in Threads : InsertSetVal(t)
    \/ \E t \in Threads : InsertSetIdx(t)
    \/ \E t \in Threads : InsertInc(t)
    \/ \E t \in Threads : Unlock(t)
    \/ \E t \in Threads : RecallLook(t)
    \/ \E pos \in pending : Flush(pos)
    \/ \E t \in Threads, stream \in RaceStreams : LoadBegin(t, stream)
    \/ \E t \in Threads : LoadCheck(t)
    \/ \E t \in Threads : LoadRead(t)

SpecRace == Init /\ [][RaceNext]_vars

(* ---------------------------------------------------------------------- *)
(* Properties of concurrent use                                            *)
(* ---------------------------------------------------------------------- *)
\* the slots some insertion has stored (or tried to store) a value in
Occupied == {w.slot : w \in wrote}

\* C9: under any interleaving of Insert and Load calls, the length stays
\* within 0..capacity, the occupied slots are the prefix [0, length) whenever
\* no insertion is in progress, and no insertion writes a slot >= capacity.
C9_SlotsWithinCapacity ==
    /\ cache0.length \in 0..cache0.maxCap
    /\ mutex = 0 => Occupied = 0..(cache0.length - 1)
    /\ \A w \in wrote : w.slot < cache0.maxCap
    /\ ~panicked

\* C10: under any interleaving, no two insertions store into the same slot
\* and every value that an Insert or Load returned no error for is stored.
C10_NoLostInsert ==
    /\ \A w1, w2 \in wrote : w1 # w2 => w1.slot # w2.slot
    /\ \A r \in returned : r.e = Nil =>
           \A k \in 1..Len(r.vals) : Stored(cache0, r.vals[k])

\* the goroutines inside Save, holding the lock
Saving == {t \in Threads : threads[t].op = "Save"
                           /\ threads[t].pc \in {"valLen", "length", "write", "unlock"}}

\* C11: Save holds the lock from its first write to its return, the cache
\* does not change meanwhile, and the stream it has written when it returns is
\* the header and the values of the slots 0..length-1 of the cache as it was
\* at one instant (when Save got the lock): the count in the header is the
\* number of values that follow it.
C11_SaveSnapshot ==
    /\ \A t \in Saving :
          /\ mutex = t
          /\ cache0 = threads[t].snap
          /\ \E k \in 0..Len(Save(cache0)) :
                threads[t].out = SubSeq(Save(threads[t].snap), 1, k)
    /\ \A t \in Threads :
          (threads[t].op = "Save" /\ threads[t].pc \in {"unlock", "done"}) =>
              LET out == threads[t].out
                  snap == threads[t].snap
              IN  /\ out = Save(snap)
                  /\ SubSeq(out, 5, 8) = <<0, 0, 0, snap.length>>
                  /\ Len(out) = 8 + snap.length * snap.valLen
                  /\ \A i \in 0..(snap.length - 1) :
                        SubSeq(out, 8 + i * snap.valLen + 1, 8 + (i + 1) * snap.valLen)
                            = val(snap, i)

\* a Save is writing the one value of the cache while another goroutine's
\* Insert, having passed its tests, waits for the lock
C11_Witness ==
    \E t \in Saving, u \in Threads :
        /\ threads[t].pc = "write" /\ threads[t].i = 1
        /\ Len(threads[t].out) = 8 + cache0.valLen
        /\ threads[u].op = "Insert" /\ threads[u].pc = "lock"

\* the offsets of the value of slot i
ValOffsets(c, i) == {i * nodeLen(c) + j : j \in 0..(c.valLen - 1)}

\* the goroutines inside recall, which holds no lock
Recalling == {t \in Threads : threads[t].op = "Recall" /\ threads[t].pc = "recall"}

\* C18: a Recall runs without the lock beside an Insert in progress and can
\* stand, having followed a child index, at a slot whose value it cannot yet
\* read in full (C18_Witness is such a state). Whenever it does, the slot is
\* one that an Insert or Load has stored to, within the array, and that call
\* still holds the lock, past its store to the child index.
C18_TornOnlyInFlight ==
    \A t \in Recalling :
        threads[t].i >= 1 =>
            /\ threads[t].i \in Occupied
            /\ threads[t].i < cache0.maxCap
            /\ ValOffsets(cache0, threads[t].i) \cap pending # {} =>
                  \E u \in Threads :
                      /\ mutex = u
                      /\ threads[u].op \in {"Insert", "Load"}
                      /\ \E w \in wrote : w.t = u /\ w.slot = threads[t].i
                      /\ ~(/\ cache0.length = threads[t].i
                           /\ threads[u].pc \in {"look", "setVal", "setIdx"})

\* a Recall has followed the child index of slot 0 to slot 1 while a byte of
\* the value of slot 1, which is not 0, is still to become visible to it, and
\* the Insert that stores slot 1 has not returned
C18_Witness ==
    \E t \in Recalling, u \in Threads :
        /\ threads[t].i = 1
        /\ mutex = u /\ threads[u].op = "Insert" /\ threads[u].pc = "inc"
        /\ \E p \in ValOffsets(cache0, 1) \cap pending : cache0.memory[p] # 0
        /\ val(View, 1) # val(cache0, 1)

====
